---- MODULE Spec2Model ----
(***************************************************************************)
(* A model of src/app.py: the POST /generate handler (generate_pptx), the  *)
(* LLM content generator (generate_presentation_content), the slide        *)
(* normalizer (normalize_slide_data) and the slide populator (the second   *)
(* half of generate_pptx).                                                 *)
(*                                                                         *)
(* Four specifications share the definitions:                              *)
(*   SpecNorm  the normalizer applied to bounded parsed-JSON values        *)
(*   SpecGen   the fence clean-up and JSON parse of one model answer       *)
(*   SpecPop   the populator run on one template and one deck              *)
(*   Spec      two concurrent POST /generate requests on the shared        *)
(*             uploads/ and generated/ directories                         *)
(*                                                                         *)
(* Python values are tagged records: k is the Python type, v the payload.  *)
(* A dict is the sequence of its <<key, value>> pairs in insertion order.  *)
(* Python str values are TLA+ strings, which TLC treats as sequences of    *)
(* characters (Len, SubSeq and \o act on them).                            *)
(***************************************************************************)
EXTENDS Integers, Sequences, FiniteSets, TLC

\* ------------------------------------------------------------------ bounds
\* longest JSON array the normalizer is given
MaxLen == 2
\* largest number of slides the uploaded template already holds
MaxK == 2
\* largest deck handed to the populator
MaxDeck == 3

\* ------------------------------------------------------------------- state
VARIABLES
  \* SpecNorm
  raw,        \* the parsed JSON value handed to normalize_slide_data
  slides,     \* the value it returned
  npc,        \* "call" before the call, "returned" after it, "idle" elsewhere
  \* SpecGen
  gText,      \* the text T the model meant to send
  gWrap,      \* how the model wrapped it: "bare", "json", "plain", "tight"
  json_str,   \* the answer extracted from the envelope, then cleaned
  gResult,    \* what the generator returns for it
  gpc,        \* "extracted", "cleaned", "returned", "idle" elsewhere
  \* SpecPop
  slide_data, \* the normalized deck
  layouts,    \* prs.slide_layouts: the placeholder count of each layout
  nTemplate,  \* len(prs.slides) of the template as loaded
  sldIdLst,   \* prs.slides._sldIdLst: the slides of the document, in order
  delIdx,     \* the indices the deletion loop has still to visit
  nextSlide,  \* 1-based position in slide_data of the next slide to create
  ppc,        \* "delete", "title", "content", "saved", "error", "idle"
  perr,       \* the exception that ended the run, "" if none
  \* Spec
  req,        \* each request's form fields and uploaded file
  pc,         \* each request's position in generate_pptx
  calls,      \* outbound requests.post calls made for each request
  uploads,    \* the uploads directory: filename -> content
  generated,  \* the generated directory: filename -> content
  llm,        \* what generate_presentation_content returned to each request
  deck,       \* each request's slide_data after normalize_slide_data
  prs,        \* each request's loaded and populated presentation
  resp        \* each request's HTTP response

nvars == <<raw, slides, npc>>
gvars == <<gText, gWrap, json_str, gResult, gpc>>
pvars == <<slide_data, layouts, nTemplate, sldIdLst, delIdx, nextSlide, ppc, perr>>
hvars == <<req, pc, calls, uploads, generated, llm, deck, prs, resp>>
vars == <<nvars, gvars, pvars, hvars>>

\* ---------------------------------------------------------- Python values
JNull == [k |-> "null"]
JBool(b) == [k |-> "bool", v |-> b]
JInt(n) == [k |-> "int", v |-> n]
JStr(s) == [k |-> "str", v |-> s]
JList(xs) == [k |-> "list", v |-> xs]
JDict(pairs) == [k |-> "dict", v |-> pairs]
PyTuple(xs) == [k |-> "tuple", v |-> xs]

IsDict(x) == x.k = "dict"
IsList(x) == x.k = "list"
IsStr(x) == x.k = "str"

\* key in d, for a dict d
HasKey(d, key) == \E i \in 1..Len(d.v) : d.v[i][1] = key

\* d.get(key, default)
DictGet(d, key, default) ==
  IF HasKey(d, key)
  THEN d.v[CHOOSE i \in 1..Len(d.v) : d.v[i][1] = key][2]
  ELSE default

Digit(d) == SubSeq("0123456789", d + 1, d + 1)

RECURSIVE IntStr(_)
IntStr(n) ==
  IF n < 0 THEN "-" \o IntStr(0 - n)
  ELSE IF n < 10 THEN Digit(n)
  ELSE IntStr(n \div 10) \o Digit(n % 10)

RECURSIVE PyRepr(_)
RECURSIVE ReprItems(_, _)
RECURSIVE ReprPairs(_, _)
\* repr(x): what str() shows of a value nested in a container
PyRepr(x) ==
  CASE x.k = "null" -> "None"
    [] x.k = "bool" -> (IF x.v THEN "True" ELSE "False")
    [] x.k = "int" -> IntStr(x.v)
    [] x.k = "str" -> "'" \o x.v \o "'"
    [] x.k = "list" -> "[" \o ReprItems(x.v, 1) \o "]"
    [] x.k = "tuple" ->
         "(" \o ReprItems(x.v, 1) \o (IF Len(x.v) = 1 THEN "," ELSE "") \o ")"
    [] x.k = "dict" -> "{" \o ReprPairs(x.v, 1) \o "}"

ReprItems(xs, i) ==
  IF i > Len(xs) THEN ""
  ELSE PyRepr(xs[i]) \o (IF i < Len(xs) THEN ", " ELSE "") \o ReprItems(xs, i + 1)

ReprPairs(ps, i) ==
  IF i > Len(ps) THEN ""
  ELSE "'" \o ps[i][1] \o "': " \o PyRepr(ps[i][2])
       \o (IF i < Len(ps) THEN ", " ELSE "") \o ReprPairs(ps, i + 1)

\* str(x): a str is itself, anything else is its repr
PyStr(x) == IF x.k = "str" THEN x.v ELSE PyRepr(x)

\* ------------------------------------------------------------- normalizer
\* lines 151-157: a dict is wrapped, any other non-list becomes one slide
NormRoot(value) ==
  IF IsDict(value) THEN <<value>>
  ELSE IF ~IsList(value)
       THEN <<JDict(<<<<"title", JStr(PyStr(value))>>, <<"points", JList(<<>>)>>>>)>>
       ELSE value.v

\* f"Slide {i+1}" for the 0-based index i of enumerate
DefaultTitle(i) == JStr("Slide " \o IntStr(i + 1))

\* lines 163-165: item.get("points", []), a non-list coerced to [str(points)]
NormPoints(item) ==
  LET points == DictGet(item, "points", JList(<<>>))
  IN IF ~IsList(points) THEN <<JStr(PyStr(points))>> ELSE points.v

\* NormItem with the default title numbered from 0: "Slide {i}"
NormItemTitleFromZero(i, item) ==
  IF IsDict(item)
  THEN [title |-> DictGet(item, "title", JStr("Slide " \o IntStr(i))),
        points |-> NormPoints(item)]
  ELSE [title |-> JStr(PyStr(item)), points |-> <<>>]

\* lines 161-168: one iteration of the loop, i the 0-based index
NormItem(i, item) ==
  IF IsDict(item)
  THEN [title |-> DictGet(item, "title", DefaultTitle(i)), points |-> NormPoints(item)]
  ELSE [title |-> JStr(PyStr(item)), points |-> <<>>]

\* normalize_slide_data(raw): the list of slides, in the order of the entries
normalize_slide_data(value) ==
  LET root == NormRoot(value)
  IN [i \in 1..Len(root) |-> NormItem(i - 1, root[i])]

\* ------------------------------------------------ inputs of the normalizer
Scalars == {JNull, JBool(TRUE), JInt(42), JStr("x")}

TitleChoices == {JStr("A"), JInt(5)}

PointsChoices ==
  {JList(<<>>), JList(<<JStr("x"), JStr("y")>>), JList(<<JInt(1)>>), JStr("x"), JNull}

\* JSON objects with or without a title and with or without points
Mappings ==
  {JDict(<<>>)}
  \cup {JDict(<<<<"title", t>>>>) : t \in TitleChoices}
  \cup {JDict(<<<<"points", p>>>>) : p \in PointsChoices}
  \cup {JDict(<<<<"title", t>>, <<"points", p>>>>) : t \in TitleChoices, p \in PointsChoices}

Entries == Mappings \cup Scalars \cup {JList(<<>>)}

SeqsUpTo(S, n) == UNION {[1..m -> S] : m \in 0..n}

\* every JSON-decodable value within the bounds
JsonValues == Scalars \cup Mappings \cup {JList(xs) : xs \in SeqsUpTo(Entries, MaxLen)}

\* --------------------------------------------------------- Python strings
\* TLA+ string literals cannot hold the backquote character: "~" stands for
\* it throughout, so "~~~json" is the opening fence marker of the source.
CharAt(s, i) == SubSeq(s, i, i)

\* c in chars, for a one-character string c
CharIn(c, chars) == \E i \in 1..Len(chars) : CharAt(chars, i) = c

\* s.startswith(prefix)
StartsWith(s, prefix) ==
  /\ Len(s) >= Len(prefix)
  /\ SubSeq(s, 1, Len(prefix)) = prefix

RECURSIVE LStrip(_, _)
\* s.lstrip(chars): drops leading characters while they are in the set chars
LStrip(s, chars) ==
  IF Len(s) > 0 /\ CharIn(CharAt(s, 1), chars)
  THEN LStrip(SubSeq(s, 2, Len(s)), chars)
  ELSE s

RECURSIVE RStrip(_, _)
\* s.rstrip(chars)
RStrip(s, chars) ==
  IF Len(s) > 0 /\ CharIn(CharAt(s, Len(s)), chars)
  THEN RStrip(SubSeq(s, 1, Len(s) - 1), chars)
  ELSE s

\* s.strip(chars): chars is a set of characters, not a prefix or suffix
Strip(s, chars) == RStrip(LStrip(s, chars), chars)

Whitespace == " \t\n\r"

\* s.strip()
StripWs(s) == Strip(s, Whitespace)

RECURSIVE ContainsFrom(_, _, _)
ContainsFrom(s, sub, i) ==
  IF i + Len(sub) - 1 > Len(s) THEN FALSE
  ELSE IF SubSeq(s, i, i + Len(sub) - 1) = sub THEN TRUE
  ELSE ContainsFrom(s, sub, i + 1)

\* sub in s, for two str values
Contains(s, sub) == ContainsFrom(s, sub, 1)

\* ------------------------------------------------------ content generator
KnownProviders == {"openai", "anthropic", "gemini"}

\* the ({'error': message}, status) pair the generator returns on failure
ErrorReturn(message, status) ==
  PyTuple(<<JDict(<<<<"error", JStr(message)>>>>), JInt(status)>>)

\* lines 131-133: the clean-up of the extracted answer
CleanFence(s) ==
  IF StartsWith(s, "~~~json") THEN StripWs(Strip(s, "~~~json\n")) ELSE s

GoodDeckText == "[{\"title\": \"A\", \"points\": [\"x\"]}]"

GoodDeck == JList(<<JDict(<<<<"title", JStr("A")>>, <<"points", JList(<<JStr("x")>>)>>>>)>>)

\* the JSON documents of the model: text -> the value json.loads gives
JsonTable ==
  { <<"null", JNull>>,
    <<"true", JBool(TRUE)>>,
    <<"42", JInt(42)>>,
    <<"\"x\"", JStr("x")>>,
    <<"\"json\"", JStr("json")>>,
    <<"\"an error\"", JStr("an error")>>,
    <<"[]", JList(<<>>)>>,
    <<"[null]", JList(<<JNull>>)>>,
    <<"[\"error\"]", JList(<<JStr("error")>>)>>,
    <<"{}", JDict(<<>>)>>,
    <<"{\"error\": \"e\"}", JDict(<<<<"error", JStr("e")>>>>)>>,
    <<GoodDeckText, GoodDeck>> }

JsonTexts == {e[1] : e \in JsonTable}

\* json.loads accepts whitespace around the document
IsJson(s) == StripWs(s) \in JsonTexts

\* json.loads(s) for a text it accepts
JsonLoads(s) == (CHOOSE e \in JsonTable : e[1] = StripWs(s))[2]

\* lines 136, 141-142: parse, a JSONDecodeError becomes the error pair
ParseAnswer(s) ==
  IF IsJson(s) THEN JsonLoads(s) ELSE ErrorReturn("LLM returned malformed JSON.", 500)

\* what the upstream API does with the one request it is sent
Upstream(texts) ==
  { [kind |-> "transport_error"],   \* requests.post raises
    [kind |-> "http_error"],        \* raise_for_status raises
    [kind |-> "bad_envelope"] }     \* the answer is not where the provider nests it
  \cup {[kind |-> "answer", text |-> t] : t \in texts}

\* lines 75-145: the value generate_presentation_content returns
generate_presentation_content(provider, up) ==
  IF provider \notin KnownProviders
  THEN ErrorReturn("Unsupported LLM provider.", 400)
  ELSE CASE up.kind \in {"transport_error", "http_error"} ->
              ErrorReturn("LLM API call failed", 500)
         [] up.kind = "bad_envelope" -> ErrorReturn("An error occurred", 500)
         [] up.kind = "answer" -> ParseAnswer(CleanFence(up.text))

\* OutboundCalls posting before the provider is looked at
OutboundCallsEager(provider, up) == 1

\* OutboundCalls posting again after an attempt that failed
OutboundCallsRetry(provider, up) ==
  IF provider \notin KnownProviders THEN 0
  ELSE IF up.kind = "answer" /\ IsJson(CleanFence(up.text)) THEN 1 ELSE 2

\* lines 112-119: the requests.post calls one run of the generator makes
OutboundCalls(provider, up) == IF provider \in KnownProviders THEN 1 ELSE 0

\* how a model wraps the text T it answers with
Wrap(kind, t) ==
  CASE kind = "bare" -> t
    [] kind = "json" -> "~~~json\n" \o t \o "\n~~~"
    [] kind = "tight" -> "~~~json" \o t \o "~~~"
    [] kind = "plain" -> "~~~\n" \o t \o "\n~~~"

WrapKinds == {"bare", "json", "tight", "plain"}

AnswerTexts == JsonTexts \cup {"oops", "{\"title\": "}

\* ---------------------------------------------------------------- populator
\* A layout is the number of placeholders it gives a slide made from it:
\* placeholder 0, when there is one, is the title (shapes.title), placeholder
\* 1 the subtitle or body (placeholders[1]).
NoSlide ==
  [kind |-> "none", sid |-> 0, title |-> "", titleIn |-> "", subtitle |-> "",
   body |-> <<>>, box |-> <<>>, fellBack |-> FALSE]

\* a slide the uploaded template came with
TemplateSlide(n) == [NoSlide EXCEPT !.kind = "template", !.sid = n]

\* DeletionIndices walking forward: range(len(prs.slides))
ForwardIndices(n) == [j \in 1..n |-> j - 1]

\* range(len(prs.slides) - 1, -1, -1), line 218
DeletionIndices(n) == [j \in 1..n |-> n - j]

\* prs.slides._sldIdLst.remove(s), line 220, for s the element at 0-based i
RemoveAt(xs, i) == SubSeq(xs, 1, i) \o SubSeq(xs, i + 2, Len(xs))

\* lines 209, 223-226: the layout of the title slide; none raises IndexError
HasTitleLayout(ls) == Len(ls) > 0

TitleLayout(ls) == ls[1]

\* lines 210, 247: layouts[1] when there are two, else layouts[0]
ContentLayout(ls) == IF Len(ls) > 1 THEN ls[2] ELSE ls[1]

\* shape.text = value and p.text = value accept a str only
TextAccepts(value) == IsStr(value)

\* lines 229-234, 252-257: the title goes to the title placeholder or a text box
TitleTarget(nPh) == IF nPh >= 1 THEN "placeholder" ELSE "textbox"

\* lines 236-243: the first point as subtitle, skipped when it cannot be set
Subtitle(nPh, points) ==
  IF Len(points) > 0 /\ nPh > 1 /\ TextAccepts(points[1]) THEN points[1].v ELSE ""

\* lines 222-243: the title slide made of deck element 0
MakeTitleSlide(nPh, element) ==
  [NoSlide EXCEPT !.kind = "title", !.title = element.title.v,
                  !.titleIn = TitleTarget(nPh),
                  !.subtitle = Subtitle(nPh, element.points)]

\* 1-based position of the first point p.text rejects, Len + 1 when none
FirstRejected(points) ==
  IF \A j \in 1..Len(points) : TextAccepts(points[j]) THEN Len(points) + 1
  ELSE CHOOSE j \in 1..Len(points) :
         /\ ~TextAccepts(points[j])
         /\ \A h \in 1..(j - 1) : TextAccepts(points[h])

\* lines 261-269: how the write through placeholders[1] can end. The try
\* covers the lookup, text_frame, clear, and each add_paragraph / p.text /
\* p.level, and any of them may raise: written is the number of points that
\* were set before it did. A missing placeholder raises at the lookup, a
\* point that is no str raises at its p.text.
PlaceholderWrites(nPh, points) ==
  IF nPh < 2 THEN {[written |-> 0, raised |-> TRUE]}
  ELSE {[written |-> w, raised |-> TRUE] :
          w \in 0..(IF FirstRejected(points) > Len(points)
                    THEN Len(points) ELSE FirstRejected(points) - 1)}
       \cup (IF FirstRejected(points) > Len(points)
             THEN {[written |-> Len(points), raised |-> FALSE]} ELSE {})

Texts(points) == [j \in 1..Len(points) |-> points[j].v]

\* lines 269-276: the fallback text box gets every point, from the first
FallbackBox(points) == Texts(points)

\* lines 246-276: the content slide of one deck element, for one way w the
\* placeholder write ended; the points the placeholder took stay in it
MakeContentSlide(nPh, element, w) ==
  [NoSlide EXCEPT !.kind = "content", !.title = element.title.v,
                  !.titleIn = TitleTarget(nPh),
                  !.body = Texts(SubSeq(element.points, 1, w.written)),
                  !.box = IF w.raised THEN FallbackBox(element.points) ELSE <<>>,
                  !.fellBack = w.raised]

\* ------------------------------------------------- inputs of the populator
\* records normalize_slide_data can return
DeckElements ==
  { [title |-> JStr("A"), points |-> <<>>],
    [title |-> JStr("B"), points |-> <<JStr("x"), JStr("y")>>],
    [title |-> JStr("C"), points |-> <<JStr("x"), JInt(1)>>],
    [title |-> JInt(5), points |-> <<JStr("x")>>] }

Decks == SeqsUpTo(DeckElements, MaxDeck)

TemplateLayouts == {<<>>, <<0>>, <<2>>, <<1, 0>>, <<2, 1>>, <<2, 2>>}

\* ------------------------------------------------- the parts not running
NormIdle == raw = JNull /\ slides = <<>> /\ npc = "idle"

GenIdle ==
  gText = "" /\ gWrap = "bare" /\ json_str = "" /\ gResult = JNull /\ gpc = "idle"

PopIdle ==
  /\ slide_data = <<>> /\ layouts = <<>> /\ nTemplate = 0
  /\ sldIdLst = <<>> /\ delIdx = <<>>
  /\ nextSlide = 0 /\ ppc = "idle" /\ perr = ""

Requests == {1, 2}

NoRequest ==
  [hasFile |-> FALSE, filename |-> "", template |-> [owner |-> 0, valid |-> FALSE],
   api_key |-> "", text_content |-> "", llm_provider |-> ""]

NoFile == [owner |-> 0, valid |-> FALSE]

NoDocument == [template |-> NoFile, deck |-> <<>>]

Filenames == {"a.pptx", "b.pptx"}

InputTexts == {"t1", "t2"}

\* hashlib.md5(text).hexdigest(): a digest that tells the texts apart
Md5Hex(text) == "md5(" \o text \o ")"

\* line 289
OutputName(text) == "generated_" \o Md5Hex(text) \o ".pptx"

OutputNames == {OutputName(t) : t \in InputTexts}

HandlerIdle ==
  /\ req = [r \in Requests |-> NoRequest]
  /\ pc = [r \in Requests |-> "idle"]
  /\ calls = [r \in Requests |-> 0]
  /\ uploads = [f \in Filenames |-> NoFile]
  /\ generated = [f \in OutputNames |-> NoDocument]
  /\ llm = [r \in Requests |-> JNull]
  /\ deck = [r \in Requests |-> <<>>]
  /\ prs = [r \in Requests |-> NoDocument]
  /\ resp = [r \in Requests |-> [kind |-> "none", status |-> 0, body |-> JNull, file |-> NoDocument]]

\* --------------------------------------------------------------- SpecNorm
NormInit ==
  /\ raw \in JsonValues
  /\ slides = <<>>
  /\ npc = "call"
  /\ GenIdle /\ PopIdle /\ HandlerIdle

\* slides = normalize_slide_data(raw)
Normalize ==
  /\ npc = "call"
  /\ slides' = normalize_slide_data(raw)
  /\ npc' = "returned"
  /\ UNCHANGED <<raw, gvars, pvars, hvars>>

NormNext == Normalize

SpecNorm == NormInit /\ [][NormNext]_vars

\* ---------------------------------------------------------------- SpecGen
GenInit ==
  /\ gText \in AnswerTexts
  /\ gWrap \in WrapKinds
  /\ json_str = Wrap(gWrap, gText)
  /\ gResult = JNull
  /\ gpc = "extracted"
  /\ NormIdle /\ PopIdle /\ HandlerIdle

\* lines 131-133
CleanAnswer ==
  /\ gpc = "extracted"
  /\ json_str' = CleanFence(json_str)
  /\ gpc' = "cleaned"
  /\ UNCHANGED <<gText, gWrap, gResult, nvars, pvars, hvars>>

\* lines 136, 141-142
LoadAnswer ==
  /\ gpc = "cleaned"
  /\ gResult' = ParseAnswer(json_str)
  /\ gpc' = "returned"
  /\ UNCHANGED <<gText, gWrap, json_str, nvars, pvars, hvars>>

GenNext == CleanAnswer \/ LoadAnswer

SpecGen == GenInit /\ [][GenNext]_vars

\* ---------------------------------------------------------------- SpecPop
PopInit ==
  /\ slide_data \in Decks
  /\ layouts \in TemplateLayouts
  /\ nTemplate \in 0..MaxK
  /\ sldIdLst = [j \in 1..nTemplate |-> TemplateSlide(j)]
  /\ delIdx = DeletionIndices(nTemplate)
  /\ nextSlide = 1
  /\ ppc = "delete"
  /\ perr = ""
  /\ NormIdle /\ GenIdle /\ HandlerIdle

PopRaise(e) ==
  /\ ppc' = "error"
  /\ perr' = e

\* lines 218-220: one iteration of the deletion loop
DeleteSlide ==
  /\ ppc = "delete"
  /\ delIdx # <<>>
  /\ LET i == Head(delIdx)
     IN IF i < Len(sldIdLst)
        THEN /\ sldIdLst' = RemoveAt(sldIdLst, i)
             /\ delIdx' = Tail(delIdx)
             /\ UNCHANGED <<ppc, perr>>
        ELSE /\ PopRaise("IndexError: _sldIdLst")
             /\ UNCHANGED <<sldIdLst, delIdx>>
  /\ UNCHANGED <<slide_data, layouts, nTemplate, nextSlide, nvars, gvars, hvars>>

\* lines 222-243
AddTitleSlide ==
  /\ ppc = "delete"
  /\ delIdx = <<>>
  /\ IF ~HasTitleLayout(layouts)
     THEN PopRaise("IndexError: slide_layouts") /\ UNCHANGED <<sldIdLst, nextSlide>>
     ELSE IF Len(slide_data) = 0
     THEN /\ PopRaise("IndexError: slide_data")
          /\ sldIdLst' = Append(sldIdLst, [NoSlide EXCEPT !.kind = "title"])
          /\ UNCHANGED nextSlide
     ELSE IF ~TextAccepts(slide_data[1].title)
     THEN /\ PopRaise("TypeError: title")
          /\ sldIdLst' = Append(sldIdLst, [NoSlide EXCEPT !.kind = "title"])
          /\ UNCHANGED nextSlide
     ELSE /\ sldIdLst' = Append(sldIdLst, MakeTitleSlide(TitleLayout(layouts), slide_data[1]))
          /\ nextSlide' = 2
          /\ ppc' = "content"
          /\ UNCHANGED perr
  /\ UNCHANGED <<slide_data, layouts, nTemplate, delIdx, nvars, gvars, hvars>>

\* lines 246-286: one iteration of the content loop
AddContentSlide ==
  /\ ppc = "content"
  /\ nextSlide <= Len(slide_data)
  /\ LET element == slide_data[nextSlide]
         nPh == ContentLayout(layouts)
     IN IF ~TextAccepts(element.title)
        THEN /\ PopRaise("TypeError: title")
             /\ sldIdLst' = Append(sldIdLst, [NoSlide EXCEPT !.kind = "content"])
             /\ UNCHANGED nextSlide
        ELSE IF Len(element.points) = 0
        THEN /\ sldIdLst' = Append(sldIdLst,
                   MakeContentSlide(nPh, element, [written |-> 0, raised |-> FALSE]))
             /\ nextSlide' = nextSlide + 1
             /\ UNCHANGED <<ppc, perr>>
        ELSE \E w \in PlaceholderWrites(nPh, element.points) :
               IF w.raised /\ FirstRejected(element.points) <= Len(element.points)
               THEN /\ PopRaise("TypeError: point")
                    /\ sldIdLst' = Append(sldIdLst, [NoSlide EXCEPT !.kind = "content"])
                    /\ UNCHANGED nextSlide
               ELSE /\ sldIdLst' = Append(sldIdLst, MakeContentSlide(nPh, element, w))
                    /\ nextSlide' = nextSlide + 1
                    /\ UNCHANGED <<ppc, perr>>
  /\ UNCHANGED <<slide_data, layouts, nTemplate, delIdx, nvars, gvars, hvars>>

\* lines 288-291: the loop is over, the document is saved
SavePresentation ==
  /\ ppc = "content"
  /\ nextSlide > Len(slide_data)
  /\ ppc' = "saved"
  /\ UNCHANGED <<slide_data, layouts, nTemplate, sldIdLst, delIdx, nextSlide, perr,
                 nvars, gvars, hvars>>

PopNext == DeleteSlide \/ AddTitleSlide \/ AddContentSlide \/ SavePresentation

SpecPop == PopInit /\ [][PopNext]_vars

\* ------------------------------------------------------------------- Spec
\* the POST /generate requests of the model: one of the required parts
\* missing, or all of them present
RequestInputs(r) ==
  LET full == [hasFile |-> TRUE, filename |-> "a.pptx",
               template |-> [owner |-> r, valid |-> TRUE],
               api_key |-> "k", text_content |-> "t1", llm_provider |-> "openai"]
  IN { [full EXCEPT !.hasFile = FALSE, !.filename = "", !.template = NoFile],
       [full EXCEPT !.filename = ""],
       [full EXCEPT !.api_key = ""],
       [full EXCEPT !.text_content = ""] }
     \cup { [full EXCEPT !.filename = f, !.text_content = t, !.llm_provider = p] :
              f \in Filenames, t \in InputTexts, p \in KnownProviders \cup {"bogus"} }
     \cup { [full EXCEPT !.filename = f, !.text_content = t,
                         !.template = [owner |-> r, valid |-> FALSE]] :
              f \in Filenames, t \in InputTexts }

\* what the model can answer a request with
HandlerAnswers ==
  {GoodDeckText, Wrap("json", GoodDeckText), "[]", "42", "{\"error\": \"e\"}", "oops"}

JsonError(status, message) ==
  [kind |-> "json", status |-> status,
   body |-> JDict(<<<<"error", JStr(message)>>>>), file |-> NoDocument]

FileResponse(doc) == [kind |-> "file", status |-> 200, body |-> JNull, file |-> doc]

Pending == [kind |-> "none", status |-> 0, body |-> JNull, file |-> NoDocument]

\* lines 182-187: the request lacks the file or a required field
MissingTemplate(in) == ~in.hasFile

MissingFields(in) == in.api_key = "" \/ in.text_content = "" \/ in.filename = ""

\* UploadsAfterStart saving the template before the form fields are checked
UploadsSaveFirst(in, dir) ==
  IF MissingTemplate(in) \/ in.filename = "" THEN dir
  ELSE [dir EXCEPT ![in.filename] = in.template]

\* lines 182-191: the uploads directory after the checks and the save
UploadsAfterStart(in, dir) ==
  IF MissingTemplate(in) \/ MissingFields(in) THEN dir
  ELSE [dir EXCEPT ![in.filename] = in.template]

\* 'error' in x raises TypeError for a value that is no container
InRaises(x) == x.k \in {"int", "bool", "null"}

\* 'error' in x: a key of a dict, an element of a list or tuple, a substring
ErrorIn(x) ==
  CASE x.k = "dict" -> HasKey(x, "error")
    [] x.k \in {"list", "tuple"} -> \E i \in 1..Len(x.v) : x.v[i] = JStr("error")
    [] x.k = "str" -> Contains(x.v, "error")

\* lines 195-196, 295-297: the response when the check does not fall through
ErrorCheckResponse(x) ==
  IF InRaises(x) THEN JsonError(500, "An unexpected error occurred")
  ELSE IF IsDict(x) THEN [JsonError(DictGet(x, "code", JInt(500)).v, "") EXCEPT !.body = x]
  ELSE JsonError(500, "An unexpected error occurred")

\* lines 195-196: whether generate_pptx stops at the error check
StopsAtErrorCheck(x) == InRaises(x) \/ ErrorIn(x)

\* lines 217-286 raise for this deck (the steps are those of SpecPop)
PopulateRaises(d) ==
  \/ Len(d) = 0
  \/ \E j \in 1..Len(d) : ~TextAccepts(d[j].title)
  \/ \E j \in 2..Len(d) : FirstRejected(d[j].points) <= Len(d[j].points)

Init ==
  /\ req \in [Requests -> UNION {RequestInputs(r) : r \in Requests}]
  /\ \A r \in Requests : req[r] \in RequestInputs(r)
  /\ pc = [r \in Requests |-> "start"]
  /\ calls = [r \in Requests |-> 0]
  /\ uploads = [f \in Filenames |-> NoFile]
  /\ generated = [f \in OutputNames |-> NoDocument]
  /\ llm = [r \in Requests |-> JNull]
  /\ deck = [r \in Requests |-> <<>>]
  /\ prs = [r \in Requests |-> NoDocument]
  /\ resp = [r \in Requests |-> Pending]
  /\ NormIdle /\ GenIdle /\ PopIdle

Respond(r, response) ==
  /\ resp' = [resp EXCEPT ![r] = response]
  /\ pc' = [pc EXCEPT ![r] = "done"]

\* lines 176-191: read the form, check it, save the template
ReceiveAndSave(r) ==
  /\ pc[r] = "start"
  /\ uploads' = UploadsAfterStart(req[r], uploads)
  /\ IF MissingTemplate(req[r])
     THEN Respond(r, JsonError(400, "No template file provided."))
     ELSE IF MissingFields(req[r])
     THEN Respond(r, JsonError(400, "Missing required fields."))
     ELSE pc' = [pc EXCEPT ![r] = "call"] /\ UNCHANGED resp
  /\ UNCHANGED <<req, calls, generated, llm, deck, prs, nvars, gvars, pvars>>

\* lines 193-199: the generator, the error check, the normalizer
GenerateContent(r) ==
  /\ pc[r] = "call"
  /\ \E up \in Upstream(HandlerAnswers) :
       LET sd == generate_presentation_content(req[r].llm_provider, up)
       IN /\ calls' = [calls EXCEPT ![r] = @ + OutboundCalls(req[r].llm_provider, up)]
          /\ llm' = [llm EXCEPT ![r] = sd]
          /\ IF StopsAtErrorCheck(sd)
             THEN Respond(r, ErrorCheckResponse(sd)) /\ UNCHANGED deck
             ELSE /\ deck' = [deck EXCEPT ![r] = normalize_slide_data(sd)]
                  /\ pc' = [pc EXCEPT ![r] = "load"]
                  /\ UNCHANGED resp
  /\ UNCHANGED <<req, uploads, generated, prs, nvars, gvars, pvars>>

\* lines 202-286: load the template from uploads and populate it
LoadAndPopulate(r) ==
  /\ pc[r] = "load"
  /\ LET tpl == uploads[req[r].filename]
     IN IF ~tpl.valid
        THEN Respond(r, JsonError(500, "Failed to load PowerPoint template")) /\ UNCHANGED prs
        ELSE IF PopulateRaises(deck[r])
        THEN Respond(r, JsonError(500, "An unexpected error occurred")) /\ UNCHANGED prs
        ELSE /\ prs' = [prs EXCEPT ![r] = [template |-> tpl, deck |-> deck[r]]]
             /\ pc' = [pc EXCEPT ![r] = "save"]
             /\ UNCHANGED resp
  /\ UNCHANGED <<req, calls, uploads, generated, llm, deck, nvars, gvars, pvars>>

\* lines 288-291: prs.save(output_path)
SaveOutput(r) ==
  /\ pc[r] = "save"
  /\ generated' = [generated EXCEPT ![OutputName(req[r].text_content)] = prs[r]]
  /\ pc' = [pc EXCEPT ![r] = "send"]
  /\ UNCHANGED <<req, calls, uploads, llm, deck, prs, resp, nvars, gvars, pvars>>

\* line 293: send_file(output_path) reads the file back
SendFile(r) ==
  /\ pc[r] = "send"
  /\ Respond(r, FileResponse(generated[OutputName(req[r].text_content)]))
  /\ UNCHANGED <<req, calls, uploads, generated, llm, deck, prs, nvars, gvars, pvars>>

Next ==
  \E r \in Requests :
    \/ ReceiveAndSave(r)
    \/ GenerateContent(r)
    \/ LoadAndPopulate(r)
    \/ SaveOutput(r)
    \/ SendFile(r)

Spec == Init /\ [][Next]_vars

\* ----------------------------------------------------------------- claims
Rejected(in) == MissingTemplate(in) \/ MissingFields(in)

IsErrorReturn(x) == x.k = "tuple"

\* C1: every failure path of POST /generate ends in a JSON {error: string}
\* response with an error status, 400 for missing fields and 500 for the
\* rest, and a file is sent only when the LLM call, the JSON parse and the
\* template load all succeeded.
C1_FailuresEndInJsonError ==
  \A r \in Requests :
    pc[r] = "done" =>
      /\ resp[r].kind \in {"json", "file"}
      /\ Rejected(req[r]) => resp[r].kind = "json" /\ resp[r].status = 400
      /\ resp[r].kind = "json" =>
           /\ HasKey(resp[r].body, "error")
           /\ resp[r].status = (IF Rejected(req[r]) THEN 400 ELSE 500)
      /\ resp[r].kind = "file" =>
           /\ ~IsErrorReturn(llm[r])
           /\ resp[r].file.template.valid

\* C2: normalize_slide_data returns, for every JSON-decodable input, a
\* non-empty sequence whose records each have a string title and a points
\* field that is a sequence of strings.
C2_NormalizerYieldsWellFormedDeck ==
  npc = "returned" =>
    /\ Len(slides) >= 1
    /\ \A i \in 1..Len(slides) :
         /\ IsStr(slides[i].title)
         /\ \A j \in 1..Len(slides[i].points) : IsStr(slides[i].points[j])

\* the slide the three-step policy prescribes for the element e at index i
PolicySlide(i, e) ==
  IF e.k = "dict"
  THEN [title |-> IF \E h \in 1..Len(e.v) : e.v[h][1] = "title"
                  THEN (CHOOSE pair \in {e.v[h] : h \in 1..Len(e.v)} : pair[1] = "title")[2]
                  ELSE JStr("Slide " \o IntStr(i + 1)),
        points |-> IF \A h \in 1..Len(e.v) : e.v[h][1] # "points" THEN <<>>
                   ELSE LET p == (CHOOSE pair \in {e.v[h] : h \in 1..Len(e.v)} :
                                    pair[1] = "points")[2]
                        IN IF p.k = "list" THEN p.v ELSE <<JStr(PyStr(p))>>]
  ELSE [title |-> JStr(PyStr(e)), points |-> <<>>]

\* C3: normalize_slide_data returns exactly what the three-step policy
\* prescribes: a mapping is wrapped, any other non-sequence becomes the one
\* slide titled with its stringified value (42 gives "42"), each element
\* yields its title (default "Slide {i+1}") and points (default empty, a
\* non-sequence coerced to its one stringified value), order and count kept.
C3_NormalizerFollowsPolicy ==
  npc = "returned" =>
    /\ raw.k = "dict" => slides = <<PolicySlide(0, raw)>>
    /\ raw.k \notin {"dict", "list"} =>
         slides = <<[title |-> JStr(PyStr(raw)), points |-> <<>>]>>
    /\ raw.k = "list" =>
         /\ Len(slides) = Len(raw.v)
         /\ \A i \in 1..Len(raw.v) : slides[i] = PolicySlide(i - 1, raw.v[i])
    /\ raw = JInt(42) => slides = <<[title |-> JStr("42"), points |-> <<>>]>>
    /\ raw = JDict(<<<<"title", JStr("A")>>, <<"points", JStr("x")>>>>) =>
         slides = <<[title |-> JStr("A"), points |-> <<JStr("x")>>]>>
    /\ raw = JList(<<JNull, JDict(<<>>)>>) =>
         slides = <<[title |-> JStr("None"), points |-> <<>>],
                    [title |-> JStr("Slide 2"), points |-> <<>>]>>

\* a two-element array whose second element has no title and scalar points
C3_Witness ==
  /\ npc = "returned"
  /\ raw.k = "list" /\ Len(raw.v) = 2
  /\ raw.v[1].k # "dict"
  /\ raw.v[2].k = "dict" /\ ~HasKey(raw.v[2], "title") /\ HasKey(raw.v[2], "points")
  /\ Len(slides) = 2 /\ slides[2].title = JStr("Slide 2")
  /\ slides[2].points = <<JStr("None")>>

\* C4: a provider other than openai, anthropic, gemini yields the
\* unsupported-provider error outcome, and no outbound call is made at any
\* point of the request.
C4_UnsupportedProviderMakesNoCall ==
  \A r \in Requests :
    req[r].llm_provider \notin KnownProviders =>
      /\ calls[r] = 0
      /\ pc[r] \notin {"start", "call"} =>
           llm[r] = ErrorReturn("Unsupported LLM provider.", 400)

C4_Witness ==
  \E r \in Requests :
    /\ req[r].llm_provider = "bogus"
    /\ pc[r] = "done"
    /\ llm[r] = ErrorReturn("Unsupported LLM provider.", 400)
    /\ calls[r] = 0

\* C5: for a deck of N >= 1 elements and a template of K >= 0 slides the
\* populated document holds exactly N slides: the reverse deletion loop only
\* uses valid indices and removes all K slides, slide 1 carries element 0's
\* title, slide j+1 carries element j's title and, in the shape its write
\* ended in, element j's points in order.
C5_PopulatedDocumentMatchesDeck ==
  /\ (ppc = "delete" /\ delIdx # <<>>) => Head(delIdx) < Len(sldIdLst)
  /\ perr # "IndexError: _sldIdLst"
  /\ ppc \in {"content", "saved"} =>
       \A j \in 1..Len(sldIdLst) : sldIdLst[j].kind # "template"
  /\ ppc = "saved" =>
       /\ Len(slide_data) >= 1
       /\ Len(sldIdLst) = Len(slide_data)
       /\ sldIdLst[1].kind = "title"
       /\ \A j \in 1..Len(slide_data) : sldIdLst[j].title = slide_data[j].title.v
       /\ \A j \in 2..Len(slide_data) :
            /\ sldIdLst[j].kind = "content"
            /\ (IF sldIdLst[j].fellBack THEN sldIdLst[j].box ELSE sldIdLst[j].body)
                 = Texts(slide_data[j].points)

\* a template of two slides populated with a deck of three
C5_Witness ==
  /\ ppc = "saved"
  /\ nTemplate = 2
  /\ Len(slide_data) = 3
  /\ Len(sldIdLst) = 3
  /\ slide_data[2].title # slide_data[3].title
  /\ Len(slide_data[2].points) = 2

\* C6: under any interleaving of two requests the template a request loads
\* is the one it uploaded and the file it sends is the presentation it
\* saved, also when they share a template filename or an input text.
C6_RequestsNeverCollide ==
  \A r \in Requests :
    /\ prs[r] # NoDocument => prs[r].template = req[r].template
    /\ resp[r].kind = "file" => resp[r].file = prs[r]

\* C7: a request makes at most one outbound LLM call: none before the
\* generator runs, and exactly the one attempt when that attempt failed.
C7_AtMostOneCall ==
  \A r \in Requests :
    /\ calls[r] <= 1
    /\ pc[r] \in {"start", "call"} => calls[r] = 0
    /\ (IsErrorReturn(llm[r]) /\ req[r].llm_provider \in KnownProviders) => calls[r] = 1

C7_Witness ==
  \E r \in Requests :
    /\ pc[r] = "done"
    /\ llm[r] = ErrorReturn("LLM API call failed", 500)
    /\ calls[r] = 1

\* C8: for a valid JSON text T wrapped in a code fence, with or without the
\* json tag, the generator parses exactly T, and an answer with no fence is
\* parsed unchanged.
C8_FenceRemovalKeepsText ==
  (gpc = "returned" /\ gText \in JsonTexts) =>
    /\ gResult = JsonLoads(gText)
    /\ gWrap = "bare" => json_str = gText

\* C9: the slide of each content element shows exactly its points, in
\* order, each once, whether written through the body placeholder or
\* through the fallback text box; no points gives no paragraphs.
C9_EachPointShownOnce ==
  ppc \in {"content", "saved"} =>
    \A j \in 2..Len(sldIdLst) :
      sldIdLst[j].body \o sldIdLst[j].box = Texts(slide_data[j].points)

\* C10, in every state: a request lacking the file or a field makes no call
\* and ends with 400; a request that passed the checks has its template in
\* uploads from then on, before any call and after a later failure.
C10_State ==
  \A r \in Requests :
    /\ Rejected(req[r]) =>
         /\ calls[r] = 0
         /\ pc[r] \in {"start", "done"}
         /\ pc[r] = "done" => resp[r].kind = "json" /\ resp[r].status = 400
    /\ (~Rejected(req[r]) /\ pc[r] # "start") => uploads[req[r].filename] # NoFile
    /\ calls[r] > 0 => uploads[req[r].filename] # NoFile

\* C10, in every step: the step that rejects a request leaves uploads,
\* generated and the calls unchanged.
C10_Step ==
  \A r \in Requests :
    (pc[r] = "start" /\ Rejected(req[r]) /\ pc'[r] # "start") =>
      /\ uploads' = uploads
      /\ generated' = generated
      /\ calls' = calls

\* C10: a request rejected for a missing template file, api_key or
\* text_content changes nothing outside the response (uploads and generated
\* unchanged, no outbound call); once the checks pass the template is
\* written to uploads before the LLM call and stays there on later failure.
C10_RejectionChangesNothing == []C10_State /\ [][C10_Step]_vars

\* one request rejected for a missing field after the other saved a file,
\* and the other failed later with its template still in uploads
C10_Witness ==
  \E r \in Requests : \E q \in Requests \ {r} :
    /\ req[r].api_key = "" /\ pc[r] = "done" /\ resp[r].status = 400
    /\ pc[q] = "done" /\ resp[q].status = 500 /\ calls[q] = 1
    /\ uploads[req[q].filename] = req[q].template

====
